---- MODULE Spec2Model ----
(***************************************************************************)
(* Model of main() in                                                      *)
(* projects/data/data/timeslide_waveforms/timeslide_waveforms.py:          *)
(* preallocation of the accepted-parameter storage, the background-file    *)
(* lookup, the rejection-sampling accumulation loop, finalization and the  *)
(* two writes.                                                             *)
(*                                                                         *)
(* Arrays are sequences (1-based: row i of the model is row i-1 of the     *)
(* numpy array).  A draw of the prior is identified by its position d in   *)
(* the sequence of all draws; the value of a field of draw d is a number   *)
(* that determines d, so that rows can be traced back to draws.            *)
(***************************************************************************)
EXTENDS Integers, Sequences, FiniteSets, TLC

\* ------------------------------------------------------------------ bounds
\* largest injection schedule length
MaxN == 3
\* the largest SNR a draw of the prior can reach
MaxSNR == 1
\* largest number of iterations that accept nothing
MaxRetry == 2

\* --------------------------------------------------------- configuration
\* the network SNR of a sample: the quietest or the loudest the prior produces
SNRValues == {0, MaxSNR}
\* thresholds below, at and above every achievable SNR
Thresholds == 0..(MaxSNR + 1)
\* the fields a draw of the prior always has (dec, psi, ra are read by main)
DeclaredFields == {"dec", "psi", "ra"}
\* field sets of the configured prior
PriorFieldSets ==
    {DeclaredFields, DeclaredFields \cup {"gps_time"}, DeclaredFields \cup {"shift"}}
\* derived fields a conversion function adds to a draw of exactly 1 sample
ExtraFields == {"chirp_mass"}
\* ifo.lower() for ifo in ifos
IfoKeys == {"h1"}
\* fields of the rejected-parameter ledger
InjectionParameterSetFields == {"dec", "psi", "ra", "snr"}
sample_rate == 2048
waveform_duration == 8
\* the configured shift of a row
ShiftValue == 7
\* marks a draw whose SNR was never computed
NoSNR == -1

VARIABLES
    pc,               \* position of main: setup, loop, finalized, wrote_first, done, error
    err,              \* the exception that ended main, or "none"
    n_files,          \* number of files in background_dir
    snr_threshold,
    prior_fields,     \* fields of a draw of the configured prior
    n_sched,          \* len(injection_times)
    n_samples,        \* the local n_samples: rows still to fill
    idx,
    num_injections,
    parameters,       \* the defaultdict: key -> array (or scalar after the loop)
    rejected_params,  \* InjectionParameterSet: field -> array
    snrs,             \* snrs of the last completed iteration
    param_keys,       \* keys of params of the last iteration, after the filter
    drawn,            \* history: SNR of every draw of the prior, in draw order
    written,          \* history: <<start, stop>> of the last slice written
    retries,          \* history: iterations that accepted nothing
    files             \* output files written

vars == <<pc, err, n_files, snr_threshold, prior_fields, n_sched, n_samples, idx,
          num_injections, parameters, rejected_params, snrs, param_keys, drawn,
          written, retries, files>>

\* ----------------------------------------------------------------- helpers
Range(s) == {s[i] : i \in 1..Len(s)}

\* np.zeros((n,))
Zeros(n) == [i \in 1..n |-> 0]

\* injection_times: strictly increasing GPS times
InjectionTimes(n) == [i \in 1..n |-> 100 + i]

\* the value field k takes in draw d
FieldValue(k, d) == IF k = "gps_time" THEN 500 + d ELSE d

\* the projected strain of draw d in a detector
Projected(d) == 200 + d

\* --------------------------------------------------------- array operators
\* faulty variant: a strict comparison rejects a sample exactly at the threshold
MaskStrict(s, thr) == [i \in 1..Len(s) |-> s[i] > thr]

\* snrs >= snr_threshold
Mask(s, thr) == [i \in 1..Len(s) |-> s[i] >= thr]

\* ~mask
Invert(mask) == [i \in 1..Len(mask) |-> ~mask[i]]

\* the positions at which mask is True, ascending, from position i on
RECURSIVE SelectedFrom(_, _)
SelectedFrom(mask, i) ==
    IF i > Len(mask) THEN <<>>
    ELSE (IF mask[i] THEN <<i>> ELSE <<>>) \o SelectedFrom(mask, i + 1)

\* faulty variant: the selected elements come out in reverse order
CompressReversed(value, mask) ==
    LET sel == SelectedFrom(mask, 1) IN
    [j \in 1..Len(sel) |-> value[sel[Len(sel) + 1 - j]]]

\* value[mask]: boolean-mask indexing keeps the selected elements in order
Compress(value, mask) ==
    LET sel == SelectedFrom(mask, 1) IN [j \in 1..Len(sel) |-> value[sel[j]]]

\* mask.sum()
Sum(mask) == Len(SelectedFrom(mask, 1))

\* faulty variant: the slice is written from row 0 whatever the offset
SliceAssignAtZero(col, start, stop, vals) ==
    [i \in 1..Len(col) |->
        IF i <= stop - start /\ i <= Len(vals) THEN vals[i] ELSE col[i]]

\* faulty variant: the values are appended, so the array grows
SliceAssignAppend(col, start, stop, vals) == col \o vals

\* col[start:stop] = vals (0-based half-open slice, clipped to the array)
SliceAssign(col, start, stop, vals) ==
    [i \in 1..Len(col) |->
        IF start < i /\ i <= stop /\ i - start <= Len(vals)
        THEN vals[i - start] ELSE col[i]]

\* --------------------------------------------------------------- the prior
\* faulty variant: every iteration draws the full schedule length
BatchSizeSchedule(n) == n_sched

\* faulty variant: one candidate more than the rows that remain
BatchSizePlusOne(n) == n + 1

\* prior.sample(n_samples): the number of candidates drawn
BatchSize(n) == n

\* keys of prior.sample(k): a draw of exactly 1 sample carries the extra keys
SampledKeys(k) == prior_fields \cup (IF k = 1 THEN ExtraFields ELSE {})

\* if n_samples == 1: params = {k: params[k] for k in parameters if k in params}
FilterKeys(k, keys) ==
    IF k = 1 THEN {x \in DOMAIN parameters : x \in keys} ELSE keys

\* the candidate batch as a dict: key -> array over the batch
Params(keys, ids) ==
    [x \in keys |-> [i \in 1..Len(ids) |-> FieldValue(x, ids[i])]]

\* params["snr"] = snrs
WithSnr(params, batch) ==
    [x \in (DOMAIN params) \cup {"snr"} |-> IF x = "snr" THEN batch ELSE params[x]]

\* generator(params) and params["dec"], params["psi"], params["ra"] need the keys
MissingKey(keys) == ~(DeclaredFields \subseteq keys)

\* ----------------------------------------------------------- loop updates
\* faulty variant: only the accepted samples are counted
CountAccepted(num, batch) == num + Sum(Mask(batch, snr_threshold))

\* num_injections += len(snrs)
CountInjections(num, batch) == num + Len(batch)

\* rejected[key] = params[key][~mask] for key in the ledger's fields
Rejected(params, mask) ==
    [f \in InjectionParameterSetFields |-> Compress(params[f], Invert(mask))]

\* faulty variant: the latest rejects replace the earlier ones
AppendReplace(rp, rejected) == rejected

\* rejected_params.append(rejected)
Append_(rp, rejected) == [f \in DOMAIN rp |-> rp[f] \o rejected[f]]

\* parameters[key]: the defaultdict creates zeros.copy() for a missing key
Column(p, key) == IF key \in DOMAIN p THEN p[key] ELSE Zeros(n_sched)

\* faulty variant: the slice of every field is written, zeros where the
\* batch has no such field
InsertAcceptedAllKeys(p, params, mask, start, stop) ==
    [x \in (DOMAIN p) \cup (DOMAIN params) |->
        IF x \in DOMAIN params
        THEN SliceAssign(Column(p, x), start, stop, Compress(params[x], mask))
        ELSE SliceAssign(p[x], start, stop, Zeros(stop - start))]

\* for key, value in params.items(): parameters[key][start:stop] = value[mask]
InsertAccepted(p, params, mask, start, stop) ==
    [x \in (DOMAIN p) \cup (DOMAIN params) |->
        IF x \in DOMAIN params
        THEN SliceAssign(Column(p, x), start, stop, Compress(params[x], mask))
        ELSE p[x]]

\* for i, ifo in enumerate(ifos): parameters[key][start:stop] = projected[:, i]
InsertProjected(p, projected, mask, start, stop) ==
    [x \in (DOMAIN p) \cup IfoKeys |->
        IF x \in IfoKeys
        THEN SliceAssign(Column(p, x), start, stop, Compress(projected, mask))
        ELSE p[x]]

\* faulty variant: the offset advances by one row per accepting iteration
AdvanceIdxByOne(i, num_accepted) == i + 1

\* idx += num_accepted
AdvanceIdx(i, num_accepted) == i + num_accepted

\* faulty variant: the remaining count drops by one per accepting iteration
RemainingByOne(n, num_accepted) == n - 1

\* n_samples -= num_accepted
Remaining(n, num_accepted) == n - num_accepted

\* ------------------------------------------------------------------- setup
\* faulty variant: the lookup never raises
LookupNoCheck(n) == "none"

\* sorted(background_dir.iterdir())[0]: indexing an empty list
LookupException(n) == IF n = 0 THEN "IndexError" ELSE "none"

\* try/except StopIteration around the lookup: what main raises
SetupError(exc) == IF exc = "StopIteration" THEN "ValueError" ELSE exc

\* parameters after preallocation
Preallocated(n) ==
    [x \in {"gps_time", "shift"} \cup IfoKeys |->
        IF x = "gps_time" THEN InjectionTimes(n)
        ELSE IF x = "shift" THEN [i \in 1..n |-> ShiftValue]
        ELSE Zeros(n)]

\* faulty variant: the loop body runs once before the count is tested
LoopConditionInclusive(n) == n >= 0

\* while n_samples > 0
LoopCondition(n) == n > 0

\* faulty variant: the number of accepted rows is attached as num_injections
AttachAccepted(p, num) ==
    [x \in (DOMAIN p) \cup {"sample_rate", "duration", "num_injections"} |->
        IF x = "sample_rate" THEN sample_rate
        ELSE IF x = "duration" THEN waveform_duration
        ELSE IF x = "num_injections" THEN idx
        ELSE p[x]]

\* parameters["sample_rate"], ["duration"], ["num_injections"] = ...
AttachScalars(p, num) ==
    [x \in (DOMAIN p) \cup {"sample_rate", "duration", "num_injections"} |->
        IF x = "sample_rate" THEN sample_rate
        ELSE IF x = "duration" THEN waveform_duration
        ELSE IF x = "num_injections" THEN num
        ELSE p[x]]

\* faulty variant: the rejected parameters are written first
WriteOrderSwapped == <<"rejected-parameters.h5", "waveforms.h5">>

\* the order of the two writes
WriteOrder == <<"waveforms.h5", "rejected-parameters.h5">>

\* what each file is written from
Content(name) == IF name = "waveforms.h5" THEN parameters ELSE rejected_params

\* ------------------------------------------------------------------ actions
Init ==
    /\ pc = "setup"
    /\ err = "none"
    /\ n_files \in 0..1
    /\ snr_threshold \in Thresholds
    /\ prior_fields \in PriorFieldSets
    /\ n_sched \in 0..MaxN
    /\ n_samples = n_sched
    /\ idx = 0
    /\ num_injections = 0
    /\ parameters = <<>>
    /\ rejected_params = [f \in InjectionParameterSetFields |-> <<>>]
    /\ snrs = <<>>
    /\ param_keys = {}
    /\ drawn = <<>>
    /\ written = <<0, 0>>
    /\ retries = 0
    /\ files = <<>>

\* lines 106-155: preallocation, background lookup, loop initialisation
Setup ==
    /\ pc = "setup"
    /\ parameters' = Preallocated(n_sched)
    /\ LET exc == SetupError(LookupException(n_files)) IN
        IF exc # "none"
        THEN pc' = "error" /\ err' = exc
        ELSE pc' = "loop" /\ err' = err
    /\ UNCHANGED <<n_files, snr_threshold, prior_fields, n_sched, n_samples, idx,
                   num_injections, rejected_params, snrs, param_keys, drawn,
                   written, retries, files>>

\* lines 156-224: one iteration of the while loop
Iterate ==
    /\ pc = "loop"
    /\ LoopCondition(n_samples)
    /\ \E batch \in [1..BatchSize(n_samples) -> SNRValues] :
        LET k == Len(batch)
            ids == [i \in 1..k |-> Len(drawn) + i]
            keys == FilterKeys(k, SampledKeys(k))
        IN
        IF MissingKey(keys)
        THEN /\ pc' = "error"
             /\ err' = "KeyError"
             /\ param_keys' = keys
             /\ drawn' = drawn \o [i \in 1..k |-> NoSNR]
             /\ UNCHANGED <<n_samples, idx, num_injections, parameters,
                            rejected_params, snrs, written, retries>>
        ELSE
        LET params == WithSnr(Params(keys, ids), batch)
            mask == Mask(batch, snr_threshold)
            num_accepted == Sum(mask)
            start == idx
            stop == idx + num_accepted
            projected == [i \in 1..k |-> Projected(ids[i])]
        IN
        /\ num_accepted > 0 \/ retries < MaxRetry
        /\ drawn' = drawn \o batch
        /\ param_keys' = keys
        /\ snrs' = batch
        /\ num_injections' = CountInjections(num_injections, batch)
        /\ rejected_params' = Append_(rejected_params, Rejected(params, mask))
        /\ UNCHANGED <<pc, err>>
        /\ IF num_accepted = 0
           THEN /\ retries' = retries + 1
                /\ UNCHANGED <<n_samples, idx, parameters, written>>
           ELSE /\ parameters' =
                      InsertProjected(
                          InsertAccepted(parameters, params, mask, start, stop),
                          projected, mask, start, stop)
                /\ written' = <<start, stop>>
                /\ idx' = AdvanceIdx(idx, num_accepted)
                /\ n_samples' = Remaining(n_samples, num_accepted)
                /\ UNCHANGED retries
    /\ UNCHANGED <<n_files, snr_threshold, prior_fields, n_sched, files>>

\* lines 226-230: the loop condition fails; the scalars are attached
Finalize ==
    /\ pc = "loop"
    /\ ~LoopCondition(n_samples)
    /\ parameters' = AttachScalars(parameters, num_injections)
    /\ pc' = "finalized"
    /\ UNCHANGED <<err, n_files, snr_threshold, prior_fields, n_sched, n_samples,
                   idx, num_injections, rejected_params, snrs, param_keys, drawn,
                   written, retries, files>>

\* lines 231-232: the first write; the writer may raise
WriteFirst ==
    /\ pc = "finalized"
    /\ \E ok \in BOOLEAN :
        IF ok
        THEN /\ files' = [f \in (DOMAIN files) \cup {WriteOrder[1]} |->
                             IF f = WriteOrder[1] THEN Content(f) ELSE files[f]]
             /\ pc' = "wrote_first"
             /\ err' = err
        ELSE /\ pc' = "error"
             /\ err' = "OSError"
             /\ files' = files
    /\ UNCHANGED <<n_files, snr_threshold, prior_fields, n_sched, n_samples, idx,
                   num_injections, parameters, rejected_params, snrs, param_keys,
                   drawn, written, retries>>

\* lines 234-239: the second write and the return
WriteSecond ==
    /\ pc = "wrote_first"
    /\ \E ok \in BOOLEAN :
        IF ok
        THEN /\ files' = [f \in (DOMAIN files) \cup {WriteOrder[2]} |->
                             IF f = WriteOrder[2] THEN Content(f) ELSE files[f]]
             /\ pc' = "done"
             /\ err' = err
        ELSE /\ pc' = "error"
             /\ err' = "OSError"
             /\ files' = files
    /\ UNCHANGED <<n_files, snr_threshold, prior_fields, n_sched, n_samples, idx,
                   num_injections, parameters, rejected_params, snrs, param_keys,
                   drawn, written, retries>>

Next == Setup \/ Iterate \/ Finalize \/ WriteFirst \/ WriteSecond

Spec == Init /\ [][Next]_vars

\* the program keeps running while it can take a step
FairSpec == Init /\ [][Next]_vars /\ WF_vars(Next)

\* ------------------------------------------------------------ properties
\* the loop has exited through its condition
AfterLoop ==
    \/ pc \in {"finalized", "wrote_first", "done"}
    \/ pc = "error" /\ err = "OSError"

\* draws written into the filled prefix of Accepted, by row
AcceptedDraws == [i \in 1..idx |-> parameters["dec"][i]]

\* draws appended to Rejected, in order
RejectedDraws == rejected_params["dec"]

\* the per-row fields of Accepted
RowKeys == (DOMAIN parameters) \ {"sample_rate", "duration", "num_injections"}

Written == DOMAIN files

\* C1: whenever the loop terminates, idx equals the schedule length, every
\* field of Accepted has exactly that many rows, and every row holds the
\* fields, strain and SNR of one accepted draw.
C1_RowCount ==
    AfterLoop =>
        /\ idx = n_sched
        /\ n_samples = 0
        /\ \A x \in RowKeys : Len(parameters[x]) = n_sched
        /\ \A i \in 1..n_sched :
            LET d == parameters["dec"][i] IN
            /\ d \in 1..Len(drawn)
            /\ drawn[d] >= snr_threshold
            /\ parameters["snr"][i] = drawn[d]
            /\ parameters["psi"][i] = d /\ parameters["ra"][i] = d
            /\ \A h \in IfoKeys : parameters[h][i] = Projected(d)

C1_Witness ==
    /\ pc = "done"
    /\ n_sched >= 2
    /\ idx = n_sched
    /\ Len(drawn) > n_sched

\* C2: in every state idx is at most the schedule length and the last slice
\* [start, stop) written into Accepted lies within rows [0, N).
C2_NoOvershoot ==
    /\ 0 <= idx /\ idx <= n_sched
    /\ 0 <= written[1] /\ written[1] <= written[2] /\ written[2] <= n_sched
    /\ \A x \in RowKeys : Len(parameters[x]) = n_sched

C2_Witness ==
    /\ pc = "loop"
    /\ written[1] > 0
    /\ written[2] = n_sched
    /\ retries > 0

\* C3: after any number of completed iterations every draw is in exactly one
\* of Accepted and Rejected, and num_injections is the number of accepted
\* rows plus the number of rejected samples.
C3_Exhaustive ==
    err # "KeyError" =>
        LET acc == Range(AcceptedDraws)
            rej == Range(RejectedDraws)
        IN
        /\ acc \cap rej = {}
        /\ acc \cup rej = 1..Len(drawn)
        /\ Cardinality(acc) = idx
        /\ Cardinality(rej) = Len(RejectedDraws)
        /\ num_injections = Len(drawn)
        /\ num_injections = idx + Len(RejectedDraws)

C3_Witness ==
    /\ pc = "loop"
    /\ idx > 0
    /\ retries > 0
    /\ Len(RejectedDraws) > n_sched

\* C4: every written row of Accepted has snr >= snr_threshold, every sample
\* in Rejected has snr < snr_threshold, and a draw whose snr equals the
\* threshold is in Accepted.
C4_Threshold ==
    /\ \A i \in 1..idx : parameters["snr"][i] >= snr_threshold
    /\ \A j \in 1..Len(rejected_params["snr"]) :
        rejected_params["snr"][j] < snr_threshold
    /\ \A d \in 1..Len(drawn) :
        drawn[d] = snr_threshold => d \in Range(AcceptedDraws)

C4_Witness ==
    /\ \E i \in 1..idx : parameters["snr"][i] = snr_threshold
    /\ Len(rejected_params["snr"]) > 0

\* C5: the filled prefix of Accepted is the sequence of all accepted draws in
\* draw order (iteration by iteration, batch order within an iteration).
C5_Order ==
    LET IsAccepted(d) == drawn[d] >= snr_threshold
        expected == SelectSeq([d \in 1..Len(drawn) |-> d], IsAccepted)
    IN
    /\ idx = Len(expected)
    /\ \A i \in 1..idx : AcceptedDraws[i] = expected[i]

C5_Witness ==
    /\ written[2] - written[1] >= 2
    /\ written[1] > 0
    /\ \E j \in 1..Len(RejectedDraws) : AcceptedDraws[1] < RejectedDraws[j] /\ RejectedDraws[j] < AcceptedDraws[idx]

\* C6: an iteration in which no sample reaches the threshold appends the
\* whole batch to Rejected and adds the batch size to num_injections, and
\* leaves idx, the remaining count and Accepted unchanged.
C6_ZeroAccepted ==
    [][(/\ pc = "loop"
        /\ pc' = "loop"
        /\ Len(drawn') > Len(drawn)
        /\ \A d \in (Len(drawn) + 1)..Len(drawn') : drawn'[d] < snr_threshold)
       =>
       (/\ Len(drawn') - Len(drawn) = n_samples
        /\ num_injections' = num_injections + n_samples
        /\ rejected_params'["dec"] =
              rejected_params["dec"] \o [i \in 1..n_samples |-> Len(drawn) + i]
        /\ rejected_params'["snr"] =
              rejected_params["snr"] \o SubSeq(drawn', Len(drawn) + 1, Len(drawn'))
        /\ idx' = idx
        /\ n_samples' = n_samples
        /\ parameters' = parameters)]_vars

C6_Witness ==
    /\ pc = "loop"
    /\ retries > 0
    /\ idx > 0
    /\ Len(snrs) > 0
    /\ \A i \in 1..Len(snrs) : snrs[i] < snr_threshold

\* C7 as stated: a finished run has written both files or none.
C7_NoPartialSuccess ==
    pc \in {"done", "error"} =>
        \/ Written = {}
        \/ Written = {"waveforms.h5", "rejected-parameters.h5"}

\* C7 amended: a run that returns has written both files; a run that fails
\* in setup or in the loop, or in the first write, has written none; the
\* rejected-parameters file is never written without the waveforms file, so
\* exactly one file exists only between the writes or after the second write
\* has failed.
C7_WaveformsFirst ==
    /\ "rejected-parameters.h5" \in Written => "waveforms.h5" \in Written
    /\ pc = "done" => Written = {"waveforms.h5", "rejected-parameters.h5"}
    /\ pc \in {"setup", "loop", "finalized"} => Written = {}
    /\ pc = "error" /\ err # "OSError" => Written = {}
    /\ Written = {"waveforms.h5"} =>
          pc = "wrote_first" \/ (pc = "error" /\ err = "OSError")

C7_Witness ==
    /\ pc = "error"
    /\ err = "OSError"
    /\ Written = {"waveforms.h5"}

\* C8: with no background file main fails before the prior is sampled and
\* before either file is written.
C8_EmptyBackground ==
    n_files = 0 =>
        /\ pc \in {"setup", "error"}
        /\ pc = "error" => err \notin {"none", "KeyError", "OSError"}
        /\ drawn = <<>>
        /\ num_injections = 0
        /\ Written = {}

C8_Witness ==
    /\ n_files = 0
    /\ pc = "error"
    /\ n_sched > 0

\* C9: when acceptance is fair (an accepting batch is always possible and
\* the retries are bounded), a run that enters the loop eventually leaves it
\* with no rows remaining and makes the writes.
C9_FairTermination ==
    (pc = "loop" /\ snr_threshold <= MaxSNR) ~>
        (n_samples = 0 /\ (pc = "done" \/ (pc = "error" /\ err = "OSError")))

\* C10: with the threshold above every SNR and a non-empty schedule the loop
\* never terminates: it stays at its head with idx = 0 and all rows
\* remaining, can always start another iteration, and writes no file.
C10_NeverTerminates ==
    (snr_threshold > MaxSNR /\ n_sched >= 1 /\ n_files > 0 /\ pc # "setup") =>
        /\ pc = "loop"
        /\ idx = 0
        /\ n_samples = n_sched
        /\ Written = {}
        /\ retries < MaxRetry => ENABLED Iterate

\* the per-row fields of a written waveforms file
FileRowKeys ==
    (DOMAIN files["waveforms.h5"]) \ {"sample_rate", "duration", "num_injections"}

\* C11: with an empty schedule the loop performs no iteration: the prior is
\* never sampled, Accepted has 0 rows, Rejected is empty and num_injections
\* is 0, also in what is handed to the writer.
C11_EmptySchedule ==
    n_sched = 0 =>
        /\ drawn = <<>>
        /\ retries = 0
        /\ param_keys = {}
        /\ snrs = <<>>
        /\ num_injections = 0
        /\ idx = 0
        /\ \A f \in InjectionParameterSetFields : Len(rejected_params[f]) = 0
        /\ \A x \in RowKeys : Len(parameters[x]) = 0
        /\ "waveforms.h5" \in Written =>
              /\ files["waveforms.h5"]["num_injections"] = 0
              /\ \A x \in FileRowKeys : Len(files["waveforms.h5"][x]) = 0
        /\ "rejected-parameters.h5" \in Written =>
              \A f \in InjectionParameterSetFields :
                  Len(files["rejected-parameters.h5"][f]) = 0

C11_Witness ==
    /\ n_sched = 0
    /\ pc = "done"
    /\ Written = {"waveforms.h5", "rejected-parameters.h5"}

\* C12: with threshold 0 and a non-empty schedule the first iteration accepts
\* all N draws: once the prior has been sampled the loop is over after one
\* iteration, Rejected is empty and num_injections = N.
C12_OneIteration ==
    (snr_threshold = 0 /\ n_sched >= 1 /\ n_files > 0 /\ drawn # <<>>) =>
        /\ err # "KeyError"
        /\ Len(drawn) = n_sched
        /\ idx = n_sched
        /\ n_samples = 0
        /\ num_injections = n_sched
        /\ retries = 0
        /\ \A f \in InjectionParameterSetFields : Len(rejected_params[f]) = 0

\* C13: in an iteration whose batch size is 1 the fields of the candidate
\* after the filter are exactly the fields of the prior's draw: every
\* declared field is kept and every extra derived field is removed.
C13_SchemaFilter ==
    [][(pc = "loop" /\ Len(drawn') = Len(drawn) + 1)
       => param_keys' = prior_fields]_vars

\* C14: the num_injections scalar is attached, and the files are written,
\* only after the loop has terminated, and its value is the number of
\* candidates drawn over all iterations.
C14_NumInjections ==
    /\ "num_injections" \in DOMAIN parameters =>
          /\ AfterLoop
          /\ n_samples = 0
          /\ parameters["num_injections"] = Len(drawn)
    /\ AfterLoop => "num_injections" \in DOMAIN parameters
    /\ Written # {} => AfterLoop
    /\ "waveforms.h5" \in Written =>
          files["waveforms.h5"]["num_injections"] = Len(drawn)

C14_Witness ==
    /\ pc = "done"
    /\ retries > 0
    /\ idx > 0
    /\ files["waveforms.h5"]["num_injections"] > n_sched

\* C15: every iteration draws exactly as many candidates as there are
\* unfilled rows of Accepted at its start, and accepts no more than that.
C15_DrawsRemaining ==
    [][(pc = "loop" /\ Len(drawn') > Len(drawn))
       =>
       (/\ Len(drawn') - Len(drawn) = n_sched - idx
        /\ Len(drawn') - Len(drawn) = n_samples
        /\ idx' >= idx
        /\ idx' - idx <= n_sched - idx)]_vars

C15_Witness ==
    /\ pc = "loop"
    /\ idx > 0
    /\ n_samples > 0
    /\ Len(drawn) > n_sched

\* C16: an accepting iteration writes the rows [idx, idx') that follow the
\* previously written slice, and changes no other row: rows are written in
\* increasing order, each once, and never overwritten.
C16_WriteOnce ==
    [][(pc = "loop" /\ pc' = "loop" /\ parameters' # parameters)
       =>
       (/\ written'[1] = written[2]
        /\ written'[1] = idx
        /\ written'[2] = idx'
        /\ written'[2] > written'[1]
        /\ \A x \in DOMAIN parameters : \A i \in 1..n_sched :
              (i <= idx \/ i > idx') => parameters'[x][i] = parameters[x][i])]_vars

C16_Witness ==
    /\ pc = "loop"
    /\ written[1] > 0
    /\ idx = written[2]
    /\ n_samples > 0

\* C17: the schedule length never changes, and every per-row field of
\* Accepted, also one first created inside the loop, has that many rows in
\* every state from preallocation on.
C17_ScheduleFixed ==
    [][/\ n_sched' = n_sched
       /\ pc' # "setup" =>
             /\ \A x \in {"gps_time", "shift"} \cup IfoKeys :
                   Len(parameters'[x]) = n_sched
             /\ \A x \in (DOMAIN parameters') \ {"sample_rate", "duration", "num_injections"} :
                   Len(parameters'[x]) = n_sched]_vars

C17_Witness ==
    /\ pc = "loop"
    /\ "snr" \in DOMAIN parameters
    /\ 0 < n_samples
    /\ n_samples < n_sched

\* C18: with an empty background directory main raises the ValueError of
\* the except branch.
C18_ValueError ==
    (n_files = 0 /\ pc = "error") => err = "ValueError"

\* C19: idx + n_samples is the schedule length in every state, idx never
\* decreases and n_samples never increases nor becomes negative.
C19_OffsetPlusRemaining ==
    [][/\ idx + n_samples = n_sched
       /\ idx' + n_samples' = n_sched
       /\ n_samples >= 0 /\ n_samples' >= 0
       /\ idx' >= idx
       /\ n_samples' <= n_samples]_vars

C19_Witness ==
    /\ pc = "finalized"
    /\ idx = n_sched
    /\ n_sched >= 2
    /\ written[1] > 0

\* C20: when the prior draws neither gps_time nor shift, the gps_time and
\* shift fields of Accepted keep the scheduled times and the configured
\* shifts in every state, and so does the written waveforms file.
C20_ScheduleFieldsKept ==
    (prior_fields \cap {"gps_time", "shift"} = {} /\ pc # "setup") =>
        /\ parameters["gps_time"] = InjectionTimes(n_sched)
        /\ parameters["shift"] = [i \in 1..n_sched |-> ShiftValue]
        /\ "waveforms.h5" \in Written =>
              /\ files["waveforms.h5"]["gps_time"] = InjectionTimes(n_sched)
              /\ files["waveforms.h5"]["shift"] = [i \in 1..n_sched |-> ShiftValue]

C20_Witness ==
    /\ pc = "done"
    /\ prior_fields = DeclaredFields
    /\ n_sched >= 2
    /\ written[1] > 0
    /\ \A i \in 1..n_sched : parameters["dec"][i] > 0

====
